---- MODULE Spec2Model ----
(***************************************************************************)
(* Bookido: products (bookable slots) kept as rows of the worksheet       *)
(* 'products', each mirrored by a calendar event (src/sheet.py).          *)
(*                                                                         *)
(* Text is modelled as a sequence of one-character strings, so that       *)
(* str.split, str.join, str(), int() and the f-strings of the source are  *)
(* computed character by character.  The worksheet is modelled as the     *)
(* table of cell texts the source reads and writes: row 1 is the header,  *)
(* data rows start at row 2, a cell read returns the text written.  The   *)
(* calendar module gcalendar is modelled from its two operations: an      *)
(* event is stored under its id, and its description can be replaced.     *)
(***************************************************************************)
EXTENDS Integers, Sequences, FiniteSets, TLC

\* ------------------------------------------------------------------ text

Digits == <<"0", "1", "2", "3", "4", "5", "6", "7", "8", "9">>

DigitValue(c) == CHOOSE d \in 0..9 : Digits[d + 1] = c

IsDigit(c) == \E d \in 0..9 : Digits[d + 1] = c

\* str(n) for n >= 0: the decimal digits, most significant first.
RECURSIVE Str(_)
Str(n) == IF n < 10 THEN <<Digits[n + 1]>>
          ELSE Str(n \div 10) \o <<Digits[(n % 10) + 1]>>

RECURSIVE DigitsValue(_)
DigitsValue(s) == IF s = <<>> THEN 0
                  ELSE 10 * DigitsValue(SubSeq(s, 1, Len(s) - 1)) + DigitValue(s[Len(s)])

AllDigits(s) == Len(s) > 0 /\ \A i \in 1..Len(s) : IsDigit(s[i])

ValueError == "ValueError"

\* int(s): an optional sign followed by decimal digits; anything else raises
\* ValueError.
ParseIntRaises(s) ==
    ~ \/ AllDigits(s)
      \/ Len(s) > 1 /\ s[1] \in {"-", "+"} /\ AllDigits(Tail(s))

ParseInt(s) ==
    IF AllDigits(s) THEN DigitsValue(s)
    ELSE IF s[1] = "-" THEN 0 - DigitsValue(Tail(s))
    ELSE DigitsValue(Tail(s))

\* s.split(sep) for a one-character sep: the parts between the separators,
\* empty parts included; ''.split(sep) is [''].
RECURSIVE Split(_, _)
Split(s, sep) ==
    IF \A i \in 1..Len(s) : s[i] # sep THEN <<s>>
    ELSE LET k == CHOOSE i \in 1..Len(s) : s[i] = sep /\ \A j \in 1..(i - 1) : s[j] # sep
         IN <<SubSeq(s, 1, k - 1)>> \o Split(SubSeq(s, k + 1, Len(s)), sep)

\* sep.join(parts)
RECURSIVE Join(_, _)
Join(parts, sep) ==
    IF parts = <<>> THEN <<>>
    ELSE IF Len(parts) = 1 THEN parts[1]
    ELSE parts[1] \o sep \o Join(Tail(parts), sep)

\* ------------------------------------------------------------ data model

\* class Product: the ten str fields, in declaration order.
ProductFields ==
    <<"id", "calendar_id", "title", "description", "address",
      "capacity", "price", "date", "time", "emails">>

Product(id, calendar_id, title, description, address, capacity, price, date, time, emails) ==
    [id |-> id, calendar_id |-> calendar_id, title |-> title,
     description |-> description, address |-> address, capacity |-> capacity,
     price |-> price, date |-> date, time |-> time, emails |-> emails]

\* class ProductRow
ProductRow(row_num, product) == [row_num |-> row_num, product |-> product]

ProductNotFoundException == "ProductNotFoundException"

CapacityReachedException == "CapacityReachedException"

NameError == "NameError"

\* What the calendar service answers to a request it cannot serve.
HttpError == "HttpError"

None == "None"

\* The outcome of a call: the exception it raised (None when it returned)
\* and the value it returned, if any.
Returned(v) == [raised |-> None, ret |-> <<v>>]

Raised(e) == [raised |-> e, ret |-> <<>>]

GMT_OFF == <<"+", "0", "1", ":", "0", "0">>

TimeZone == "America/Los_Angeles"

\* ------------------------------------------------------------ worksheet

\* Row 1 of the worksheet 'products': the column names.
Header ==
    <<"id", "calendar_id", "title", "description", "address",
      "capacity", "price", "date", "time", "emails">>

\* products_sheet.get_all_records(): one dict per data row, keyed by the
\* header cell of each column.
get_all_records(sheet) ==
    [i \in 1..(Len(sheet) - 1) |->
        [k \in {Header[c] : c \in 1..Len(Header)} |->
            sheet[i + 1][CHOOSE c \in 1..Len(Header) : Header[c] = k]]]

\* products_sheet.append_row(values): a new row after the last one.
append_row(sheet, values) == Append(sheet, values)

\* products_sheet.update_cell(row, col, value); rows and columns count from 1.
update_cell(sheet, row, col, value) ==
    IF row \in 1..Len(sheet) /\ col \in 1..Len(sheet[row])
    THEN [sheet EXCEPT ![row][col] = value]
    ELSE sheet

\* ------------------------------------------------------------- calendar

NoEvents == [c \in {} |-> None]

\* gcalendar.add_event(event): the service stores the event under its id and
\* refuses an id it already holds.
add_event_raises(cal, event) == event.id \in DOMAIN cal

add_event(cal, event) ==
    [c \in DOMAIN cal \cup {event.id} |-> IF c = event.id THEN event ELSE cal[c]]

\* gcalendar.update_event_description(calendar_id, description): replaces the
\* description of the event with that id; there must be one.
update_event_description_raises(cal, calendar_id) == calendar_id \notin DOMAIN cal

update_event_description(cal, calendar_id, description) ==
    [cal EXCEPT ![calendar_id].description = description]

\* -------------------------------------------------------- product store

list_products(sheet) ==
    LET products == get_all_records(sheet)
    IN [i \in 1..Len(products) |->
          LET p == products[i]
          IN ProductRow((i - 1) + 2,
                        Product(p["id"], p["calendar_id"], p["title"], p["description"],
                                p["address"], p["capacity"], p["price"], p["date"],
                                p["time"], p["emails"]))]

\* A lookup that keeps scanning and returns the last row with the id.
ScanLast(product_rows, product_id) ==
    LET matches == {i \in 1..Len(product_rows) : product_rows[i].product.id = product_id}
    IN IF matches = {} THEN Raised(ProductNotFoundException)
       ELSE Returned(product_rows[CHOOSE i \in matches : \A j \in matches : j <= i])

RECURSIVE Scan(_, _)
Scan(product_rows, product_id) ==
    IF product_rows = <<>> THEN Raised(ProductNotFoundException)
    ELSE IF Head(product_rows).product.id = product_id THEN Returned(Head(product_rows))
    ELSE Scan(Tail(product_rows), product_id)

get_product_row(sheet, product_id) == Scan(list_products(sheet), product_id)

build_description(product_description, product_capacity, num_booked) ==
    product_description \o <<" ", "(">> \o Str(num_booked) \o <<"/">>
        \o product_capacity \o <<")">>

convert_to_gcalendar_friendly_date(date, time) == date \o <<"T">> \o time \o GMT_OFF

\* An id that counts the header row as well.
generate_new_product_id_all_rows(sheet) == Str(Len(sheet))

generate_new_product_id(sheet) == Str(Len(get_all_records(sheet)))

\* The field values in the order add_product_raw passes them: price before
\* capacity.
product_values_as_passed(product) ==
    <<product.id, product.calendar_id, product.title, product.description, product.address,
      product.price, product.capacity, product.date, product.time, product.emails>>

\* list(product.dict().values()): the field values in declaration order.
product_values(product) == [i \in 1..Len(ProductFields) |-> product[ProductFields[i]]]

\* datetime.strptime(time, '%H:%M:%S'): three fields of one or two digits
\* separated by ':', hour < 24, minute < 60, second < 60; the result is the
\* second of the day.
strptime_raises(time) ==
    LET parts == Split(time, ":")
    IN ~ /\ Len(parts) = 3
         /\ \A i \in 1..3 : AllDigits(parts[i]) /\ Len(parts[i]) <= 2
         /\ DigitsValue(parts[1]) < 24
         /\ DigitsValue(parts[2]) < 60
         /\ DigitsValue(parts[3]) < 60

strptime(time) ==
    LET parts == Split(time, ":")
    IN 3600 * DigitsValue(parts[1]) + 60 * DigitsValue(parts[2]) + DigitsValue(parts[3])

TwoDigits(n) == IF n < 10 THEN <<"0">> \o Str(n) ELSE Str(n)

\* (t + timedelta(minutes=45)).strftime('%H:%M:%S'): the time of day 45
\* minutes later, the date dropped.
EventMinutes == 45

strftime_plus(seconds) ==
    LET t == (seconds + 60 * EventMinutes) % 86400
    IN TwoDigits(t \div 3600) \o <<":">> \o TwoDigits((t % 3600) \div 60)
         \o <<":">> \o TwoDigits(t % 60)

\* The event dict add_product builds; the time of the product is known to parse.
event_of(product) ==
    [id |-> product.calendar_id,
     summary |-> product.title,
     location |-> product.address,
     description |-> build_description(product.description, product.capacity, 0),
     start |-> [dateTime |-> convert_to_gcalendar_friendly_date(product.date, product.time),
                timeZone |-> TimeZone],
     end |-> [dateTime |-> convert_to_gcalendar_friendly_date(
                               product.date, strftime_plus(strptime(product.time))),
              timeZone |-> TimeZone]]

\* add_product(product): the worksheet and the calendar after the call and
\* the exception that ended it, if any.  The row is appended first; a time
\* that does not parse ends the call before the event is sent.
add_product_row(sheet, product) == append_row(sheet, product_values(product))

add_product_event(cal, product) ==
    IF strptime_raises(product.time) THEN [cal |-> cal, raised |-> ValueError]
    ELSE IF add_event_raises(cal, event_of(product)) THEN [cal |-> cal, raised |-> HttpError]
    ELSE [cal |-> add_event(cal, event_of(product)), raised |-> None]

add_product(sheet, cal, product) ==
    LET e == add_product_event(cal, product)
    IN [sheet |-> add_product_row(sheet, product), cal |-> e.cal, raised |-> e.raised]

\* add_product_raw(...): builds new_product from a generated calendar id and
\* the generated product id, then names sample_product, which nothing in the
\* module defines: the call ends there with NameError, before add_product.
add_product_raw(sheet, cal, calendar_id, title, description, address, price, capacity, date, time) ==
    LET product_id == generate_new_product_id(sheet)
        new_product == Product(product_id, calendar_id, title, description, address,
                               capacity, price, date, time, <<>>)
    IN [sheet |-> sheet, cal |-> cal, raised |-> NameError, new_product |-> new_product]

\* ------------------------------------------------------ booking service

EmailsColumn == 10

\* The emails of a stored product: '' is no email, otherwise the parts
\* between the commas.
parse_emails(stored) == IF stored # <<>> THEN Split(stored, ",") ELSE <<>>

\* A check that lets one booking past the capacity.
capacity_reached_late(emails, capacity) == Len(emails) > capacity

\* A check that keeps the last slot free.
capacity_reached_early(emails, capacity) == Len(emails) > capacity - 2

capacity_reached(emails, capacity) == Len(emails) > capacity - 1

\* add_booking between the rows it has read and its first write: the row
\* lookup, the capacity check and the values it goes on to write.
booking_plan(product_rows, product_id, email) ==
    LET found == Scan(product_rows, product_id)
    IN IF found.raised # None THEN [raised |-> found.raised]
       ELSE
       LET product_row == found.ret[1]
           product == product_row.product
           emails == parse_emails(product.emails)
       IN IF ParseIntRaises(product.capacity) THEN [raised |-> ValueError]
          ELSE IF capacity_reached(emails, ParseInt(product.capacity))
          THEN [raised |-> CapacityReachedException]
          ELSE
          LET emails1 == Append(emails, email)
              emails_to_store == IF Len(emails1) = 1 THEN email ELSE Join(emails1, <<",">>)
              description ==
                  build_description(product.description, product.capacity, Len(emails1))
                     \o <<"\n">> \o Join(Split(emails_to_store, ","), <<"\n">>)
          IN [raised |-> None,
              row_num |-> product_row.row_num,
              emails_to_store |-> emails_to_store,
              calendar_id |-> product.calendar_id,
              description |-> description]

\* add_booking(product_id, email) run from start to end.
add_booking(sheet, cal, product_id, email) ==
    LET plan == booking_plan(list_products(sheet), product_id, email)
    IN IF plan.raised # None
       THEN [sheet |-> sheet, cal |-> cal, raised |-> plan.raised]
       ELSE
       LET sheet1 == update_cell(sheet, plan.row_num, EmailsColumn, plan.emails_to_store)
       IN IF update_event_description_raises(cal, plan.calendar_id)
          THEN [sheet |-> sheet1, cal |-> cal, raised |-> HttpError]
          ELSE [sheet |-> sheet1,
                cal |-> update_event_description(cal, plan.calendar_id, plan.description),
                raised |-> None]

\* generate_calendar_id(): a uuid4 in hex, modelled as the first id of the
\* series c0, c1, ... that is not in use: a uuid never repeats.
RECURSIVE FirstUnused(_, _)
FirstUnused(used, k) ==
    IF <<"c">> \o Str(k) \in used THEN FirstUnused(used, k + 1) ELSE <<"c">> \o Str(k)

generate_calendar_id(used) == FirstUnused(used, 0)

\* The field values the calls are given: a time that parses and one that
\* does not, and one value, unlike the others, for each remaining field.
GoodTime == <<"2", "3", ":", "3", "0", ":", "0", "0">>

BadTime == <<"n", "o", "o", "n">>

Title == <<"T">>

Description == <<"D">>

Address == <<"A">>

Price == <<"9">>

Date == <<"d">>

\* ---------------------------------------------------------------- state

VARIABLES
    products_sheet,   \* the worksheet 'products': the header row, then the data rows
    calendar,         \* the calendar: event id -> event
    added,            \* the products given to add_product, in call order
    last,             \* the last call of the single caller: name, arguments, outcome
    pc,               \* concurrent callers: where each one is in its call
    frame,            \* concurrent callers: the arguments and locals of its call
    raced             \* whether a caller ever took a step while another was in a call

vars == <<products_sheet, calendar, added, last, pc, frame, raced>>

Call(op, args, raised, ret) == [op |-> op, args |-> args, raised |-> raised, ret |-> ret]

Procs == {"p1", "p2"}

NoFrame ==
    [op |-> "none", args |-> <<>>, rows |-> <<>>, plan |-> <<>>, product |-> <<>>,
     raised |-> None, overlapped |-> FALSE]

\* The worksheet holds at most MaxRows products.
MaxRows == 2

Init ==
    /\ products_sheet = <<Header>>
    /\ calendar = NoEvents
    /\ added = <<>>
    /\ last = Call("start", <<>>, None, <<>>)
    /\ pc = [p \in Procs |-> "idle"]
    /\ frame = [p \in Procs |-> NoFrame]
    /\ raced = FALSE

\* The calendar ids in use: those of the stored products, of the events and
\* of the products about to be stored.
UsedCalendarIds ==
    {products_sheet[r][2] : r \in 2..Len(products_sheet)}
        \cup DOMAIN calendar
        \cup {frame[p].product[1].calendar_id : p \in {q \in Procs : frame[q].product # <<>>}}

\* --------------------------------------------------- the single caller

AddProduct(product) ==
    /\ Len(products_sheet) - 1 < MaxRows
    /\ LET r == add_product(products_sheet, calendar, product)
       IN /\ products_sheet' = r.sheet
          /\ calendar' = r.cal
          /\ last' = Call("add_product", <<product>>, r.raised, <<>>)
    /\ added' = Append(added, product)
    /\ UNCHANGED <<pc, frame, raced>>

AddBooking(product_id, email) ==
    /\ LET r == add_booking(products_sheet, calendar, product_id, email)
       IN /\ products_sheet' = r.sheet
          /\ calendar' = r.cal
          /\ last' = Call("add_booking", <<product_id, email>>, r.raised, <<>>)
    /\ UNCHANGED <<added, pc, frame, raced>>

GetProductRow(product_id) ==
    /\ LET r == get_product_row(products_sheet, product_id)
       IN last' = Call("get_product_row", <<product_id>>, r.raised, r.ret)
    /\ UNCHANGED <<products_sheet, calendar, added, pc, frame, raced>>

AddProductRaw(title, description, address, price, capacity, date, time) ==
    /\ LET r == add_product_raw(products_sheet, calendar,
                                generate_calendar_id(UsedCalendarIds),
                                title, description, address, price, capacity, date, time)
       IN /\ products_sheet' = r.sheet
          /\ calendar' = r.cal
          /\ last' = Call("add_product_raw",
                          <<title, description, address, price, capacity, date, time>>,
                          r.raised, <<>>)
    /\ UNCHANGED <<added, pc, frame, raced>>

\* -------------------------------------------------- concurrent callers
\* Each request to the worksheet or to the calendar is one step, and so is
\* what add_booking computes on the rows it has read.  A call that ends
\* leaves its name, arguments and outcome in its frame; its locals are gone.

Ended(f, raised) ==
    [f EXCEPT !.rows = <<>>, !.plan = <<>>, !.product = <<>>, !.raised = raised]

Others(p) == Procs \ {p}

Step(p) == raced' = (raced \/ \E q \in Others(p) : pc[q] # "idle")

\* add_booking, line 65: list_products() reads the rows.
BookingRead(p, product_id, email) ==
    /\ pc[p] = "idle"
    /\ LET together == {q \in Others(p) : pc[q] \in {"check", "update_cell"}}
       IN frame' = [q \in Procs |->
                      IF q = p
                      THEN [NoFrame EXCEPT !.op = "add_booking",
                                           !.args = <<product_id, email>>,
                                           !.rows = list_products(products_sheet),
                                           !.overlapped = together # {}]
                      ELSE IF q \in together THEN [frame[q] EXCEPT !.overlapped = TRUE]
                      ELSE frame[q]]
    /\ pc' = [pc EXCEPT ![p] = "check"]
    /\ Step(p)
    /\ UNCHANGED <<products_sheet, calendar, added, last>>

\* add_booking, lines 65-72: the row lookup and the capacity check on the
\* rows read.
BookingCheck(p) ==
    /\ pc[p] = "check"
    /\ LET plan == booking_plan(frame[p].rows, frame[p].args[1], frame[p].args[2])
       IN IF plan.raised # None
          THEN /\ frame' = [frame EXCEPT ![p] = Ended(frame[p], plan.raised)]
               /\ pc' = [pc EXCEPT ![p] = "idle"]
          ELSE /\ frame' = [frame EXCEPT ![p].plan = <<plan>>]
               /\ pc' = [pc EXCEPT ![p] = "update_cell"]
    /\ Step(p)
    /\ UNCHANGED <<products_sheet, calendar, added, last>>

\* add_booking, line 73
BookingUpdateCell(p) ==
    /\ pc[p] = "update_cell"
    /\ LET plan == frame[p].plan[1]
       IN products_sheet' =
              update_cell(products_sheet, plan.row_num, EmailsColumn, plan.emails_to_store)
    /\ pc' = [pc EXCEPT ![p] = "update_event"]
    /\ Step(p)
    /\ UNCHANGED <<calendar, added, last, frame>>

\* add_booking, lines 74-76
BookingUpdateEvent(p) ==
    /\ pc[p] = "update_event"
    /\ LET plan == frame[p].plan[1]
       IN IF update_event_description_raises(calendar, plan.calendar_id)
          THEN /\ frame' = [frame EXCEPT ![p] = Ended(frame[p], HttpError)]
               /\ UNCHANGED calendar
          ELSE /\ calendar' =
                      update_event_description(calendar, plan.calendar_id, plan.description)
               /\ frame' = [frame EXCEPT ![p] = Ended(frame[p], None)]
    /\ pc' = [pc EXCEPT ![p] = "idle"]
    /\ Step(p)
    /\ UNCHANGED <<products_sheet, added, last>>

\* A caller that adds a product under a generated id, as add_product_raw sets
\* out to: generate_calendar_id(), generate_new_product_id() (a read of the
\* rows), then add_product.
GenerateId(p, capacity) ==
    /\ pc[p] = "idle"
    /\ Len(products_sheet) - 1 + Cardinality({q \in Procs : pc[q] = "append_row"}) < MaxRows
    /\ LET calendar_id == generate_calendar_id(UsedCalendarIds)
           product_id == generate_new_product_id(products_sheet)
           new_product == Product(product_id, calendar_id, Title, Description, Address,
                                  capacity, Price, Date, GoodTime, <<>>)
       IN frame' = [frame EXCEPT ![p] =
                      [NoFrame EXCEPT !.op = "add_product", !.product = <<new_product>>]]
    /\ pc' = [pc EXCEPT ![p] = "append_row"]
    /\ Step(p)
    /\ UNCHANGED <<products_sheet, calendar, added, last>>

\* add_product, lines 105-106
AppendRow(p) ==
    /\ pc[p] = "append_row"
    /\ products_sheet' = add_product_row(products_sheet, frame[p].product[1])
    /\ added' = Append(added, frame[p].product[1])
    /\ pc' = [pc EXCEPT ![p] = "add_event"]
    /\ Step(p)
    /\ UNCHANGED <<calendar, last, frame>>

\* add_product, lines 107-121
AddEvent(p) ==
    /\ pc[p] = "add_event"
    /\ LET e == add_product_event(calendar, frame[p].product[1])
       IN /\ calendar' = e.cal
          /\ frame' = [frame EXCEPT ![p] = Ended(frame[p], e.raised)]
    /\ pc' = [pc EXCEPT ![p] = "idle"]
    /\ Step(p)
    /\ UNCHANGED <<products_sheet, added, last>>

\* -------------------------------------------------------------- inputs

ProductIds == {<<"0">>, <<"1">>}

CalendarIds == {<<"u">>, <<"v">>}

\* Spec: the product store.  Products with any id, calendar id and time,
\* with or without emails already stored; bookings of one email.
StoreProducts ==
    {Product(id, calendar_id, Title, Description, Address, <<"1">>, Price, Date, time, emails) :
        id \in ProductIds, calendar_id \in CalendarIds,
        time \in {GoodTime, BadTime}, emails \in {<<>>, <<"a">>}}

StoreEmails == {<<"a">>}

Next ==
    \/ \E product \in StoreProducts : AddProduct(product)
    \/ \E product_id \in ProductIds, email \in StoreEmails : AddBooking(product_id, email)
    \/ \E product_id \in ProductIds : GetProductRow(product_id)
    \/ AddProductRaw(Title, Description, Address, Price, <<"2">>, Date, GoodTime)

Spec == Init /\ [][Next]_vars

\* SpecBooking: the booking service.  Products of any id and capacity, added
\* with no emails and a calendar id of their own; bookings of any email.
Capacities == {<<"0">>, <<"1">>, <<"2">>, <<"x">>}

Emails == {<<>>, <<"a">>, <<"b">>, <<"a", ",", "b">>}

AddFreshProduct(id, capacity) ==
    AddProduct(Product(id, generate_calendar_id(UsedCalendarIds), Title, Description,
                       Address, capacity, Price, Date, GoodTime, <<>>))

NextBooking ==
    \/ \E id \in ProductIds, capacity \in Capacities : AddFreshProduct(id, capacity)
    \/ \E product_id \in ProductIds, email \in Emails : AddBooking(product_id, email)

SpecBooking == Init /\ [][NextBooking]_vars

\* SpecConcurrent: two callers whose calls interleave request by request.
\* Products are added under generated ids; each caller books the first
\* product under an email of its own.
EmailOf(p) == IF p = "p1" THEN <<"a">> ELSE <<"b">>

NextConcurrent ==
    \E p \in Procs :
        \/ BookingRead(p, <<"0">>, EmailOf(p))
        \/ BookingCheck(p)
        \/ BookingUpdateCell(p)
        \/ BookingUpdateEvent(p)
        \/ \E capacity \in {<<"1">>, <<"2">>} : GenerateId(p, capacity)
        \/ AppendRow(p)
        \/ AddEvent(p)

SpecConcurrent == Init /\ [][NextConcurrent]_vars

\* ------------------------------------------------------------- properties

\* The number of entries of a stored email list: none for the empty text,
\* otherwise one more than the number of commas.
NumEntries(stored) ==
    IF stored = <<>> THEN 0
    ELSE 1 + Cardinality({i \in 1..Len(stored) : stored[i] = ","})

\* The worksheet row (2, 3, ...) of the first product with this id; 0 if none.
FirstRow(sheet, product_id) ==
    LET matches == {r \in 2..Len(sheet) : sheet[r][1] = product_id}
    IN IF matches = {} THEN 0 ELSE CHOOSE r \in matches : \A x \in matches : r <= x

StoredEmails(sheet, r) == sheet[r][10]

StoredCapacity(sheet, r) == sheet[r][6]

IsCount(text) == ~ParseIntRaises(text) /\ ParseInt(text) >= 0

\* The row an add_booking call is about, in the worksheet before the call.
BookedRow == FirstRow(products_sheet, last'.args[1])

BookingReturned == last'.op = "add_booking" /\ last'.raised = None

\* C1: in sequential use, a product added with no emails and a capacity that
\* is an integer >= 0 never holds more entries in its stored email list than
\* its capacity, whatever ids and emails the calls are given.
C1_EmailsWithinCapacity ==
    \A i \in 1..Len(added) :
        (added[i].emails = <<>> /\ IsCount(added[i].capacity))
            => NumEntries(StoredEmails(products_sheet, i + 1)) <= ParseInt(added[i].capacity)

\* C2: add_booking on a product whose stored list holds capacity or more
\* entries fails with CapacityReachedException and writes nothing: the
\* worksheet and the calendar are as before the call.
C2_AtCapacityFails ==
    [][(/\ last'.op = "add_booking"
        /\ BookedRow # 0
        /\ ~ParseIntRaises(StoredCapacity(products_sheet, BookedRow))
        /\ NumEntries(StoredEmails(products_sheet, BookedRow))
              >= ParseInt(StoredCapacity(products_sheet, BookedRow)))
       => (/\ last'.raised = CapacityReachedException
           /\ products_sheet' = products_sheet
           /\ calendar' = calendar)]_vars

\* C2, its case: a booking was refused on a product that bookings filled.
C2_Witness ==
    /\ last.op = "add_booking"
    /\ last.raised = CapacityReachedException
    /\ LET r == FirstRow(products_sheet, last.args[1])
       IN /\ ParseInt(StoredCapacity(products_sheet, r)) = 2
          /\ NumEntries(StoredEmails(products_sheet, r)) >= 2

\* C3: when add_booking returns without raising, the product's stored list
\* has exactly one entry more than before the call, for every email text.
C3_CountIncreasesByOne ==
    [][BookingReturned
       => NumEntries(StoredEmails(products_sheet', BookedRow))
            = NumEntries(StoredEmails(products_sheet, BookedRow)) + 1]_vars

\* C5: after every add_booking that returns, the stored list is the list
\* before the call followed by the email as its last entry.
C5_AppendsEmail ==
    [][BookingReturned
       => parse_emails(StoredEmails(products_sheet', BookedRow))
            = Append(parse_emails(StoredEmails(products_sheet, BookedRow)), last'.args[2])]_vars

\* '<description> (<n>/<capacity>)' followed by one email per line.
RECURSIVE Lines(_)
Lines(entries) ==
    IF entries = <<>> THEN <<>> ELSE <<"\n">> \o Head(entries) \o Lines(Tail(entries))

Occupancy(description, capacity, stored) ==
    description \o <<" ", "(">> \o Str(NumEntries(stored)) \o <<"/">> \o capacity \o <<")">>
        \o Lines(parse_emails(stored))

\* C9: after add_product returns, the product's event reads
\* '<description> (0/<capacity>)'; after add_booking returns, the event of the
\* booked product reads '<description> (<n>/<capacity>)' and then the stored
\* entries one per line, n being the number of stored entries.
C9_EventShowsOccupancy ==
    [][/\ (last'.op = "add_product" /\ last'.raised = None)
            => LET product == last'.args[1]
               IN calendar'[product.calendar_id].description
                     = product.description \o <<" ", "(", "0", "/">> \o product.capacity \o <<")">>
       /\ BookingReturned
            => LET row == products_sheet'[BookedRow]
               IN calendar'[row[2]].description = Occupancy(row[4], row[6], row[10])]_vars

\* The product a worksheet row holds, column by column.
ProductAt(sheet, r) ==
    Product(sheet[r][1], sheet[r][2], sheet[r][3], sheet[r][4], sheet[r][5],
            sheet[r][6], sheet[r][7], sheet[r][8], sheet[r][9], sheet[r][10])

\* C6: after add_product(product) on a worksheet of n products,
\* list_products() returns n + 1 rows: the first n as before, the last with
\* row_num n + 2 and the ten fields of the product given, its emails in
\* column 10.
C6_AddThenList ==
    [][last'.op = "add_product"
       => LET before == list_products(products_sheet)
              after == list_products(products_sheet')
              n == Len(before)
              product == last'.args[1]
          IN /\ Len(after) = n + 1
             /\ \A i \in 1..n : after[i] = before[i]
             /\ after[n + 1].row_num = n + 2
             /\ \A i \in 1..Len(ProductFields) :
                    after[n + 1].product[ProductFields[i]] = product[ProductFields[i]]
             /\ after[n + 1].product = product
             /\ products_sheet'[n + 2][10] = product.emails]_vars

\* C6, its case: a product with stored emails was added after another one.
C6_Witness ==
    /\ last.op = "add_product"
    /\ last.raised = None
    /\ Len(products_sheet) = 3
    /\ last.args[1].emails = <<"a">>
    /\ list_products(products_sheet)[2].product.emails = <<"a">>

\* C7: get_product_row(id) fails with ProductNotFoundException exactly when
\* no row has that id; otherwise it returns the first row with that id, its
\* row_num the row's 0-based index among the data rows plus 2.  add_booking
\* for an unknown id fails with ProductNotFoundException and writes nothing.
C7_LookupFirstMatch ==
    [][/\ last'.op = "get_product_row"
            => LET r == FirstRow(products_sheet, last'.args[1])
               IN IF r = 0
                  THEN last'.raised = ProductNotFoundException /\ last'.ret = <<>>
                  ELSE /\ last'.raised = None
                       /\ Len(last'.ret) = 1
                       /\ last'.ret[1].row_num = ((r - 1) - 1) + 2
                       /\ last'.ret[1].product = ProductAt(products_sheet, r)
       /\ (last'.op = "add_booking" /\ FirstRow(products_sheet, last'.args[1]) = 0)
            => /\ last'.raised = ProductNotFoundException
               /\ products_sheet' = products_sheet
               /\ calendar' = calendar]_vars

\* C7, its case: two rows hold the id looked up, differing in their emails,
\* and the lookup returned the first.
C7_Witness ==
    /\ last.op = "get_product_row"
    /\ last.raised = None
    /\ Len(products_sheet) = 3
    /\ products_sheet[2][1] = last.args[1]
    /\ products_sheet[3][1] = last.args[1]
    /\ products_sheet[2] # products_sheet[3]
    /\ last.ret[1].row_num = 2

\* C8: add_product_raw(title, description, address, price, capacity, date,
\* time) stores a new product: afterwards the worksheet has one more row,
\* holding the generated product id, a generated calendar id, the fields
\* given and no emails, and the calendar holds an event for it.
C8_RawStoresProduct ==
    [][last'.op = "add_product_raw"
       => LET n == Len(products_sheet)
          IN /\ Len(products_sheet') = n + 1
             /\ SubSeq(products_sheet', 1, n) = products_sheet
             /\ LET stored == ProductAt(products_sheet', n + 1)
                IN /\ stored.id = generate_new_product_id(products_sheet)
                   /\ <<stored.title, stored.description, stored.address, stored.price,
                        stored.capacity, stored.date, stored.time>> = last'.args
                   /\ stored.emails = <<>>
                   /\ stored.calendar_id \in DOMAIN calendar']_vars

\* The free slots a call in progress saw in the rows it read: the capacity
\* of the first row with its product id less the entries stored there; -1
\* when there is no such row or its capacity is no number.
FreeSlotsRead(p) ==
    LET rows == frame[p].rows
        matches == {i \in 1..Len(rows) : rows[i].product.id = frame[p].args[1]}
    IN IF matches = {} THEN -1
       ELSE LET first == rows[CHOOSE i \in matches : \A j \in matches : i <= j].product
            IN IF ParseIntRaises(first.capacity) THEN -1
               ELSE ParseInt(first.capacity) - NumEntries(first.emails)

\* C4: two add_booking calls on the same product can both read its row
\* before either writes; with exactly one free slot in the row, each of them
\* passes the capacity check and goes on to write.
C4_BothPassCheck ==
    [][\A p \in Procs :
          (/\ pc[p] = "check"
           /\ pc'[p] # "check"
           /\ frame[p].overlapped
           /\ FreeSlotsRead(p) = 1)
          => pc'[p] = "update_cell"]_vars

\* C4, its case: both callers read the first product before either wrote,
\* and both returned without an exception, on a product of capacity 1.
C4_Witness ==
    /\ \A p \in Procs :
          /\ pc[p] = "idle"
          /\ frame[p].op = "add_booking"
          /\ frame[p].overlapped
          /\ frame[p].raised = None
    /\ StoredCapacity(products_sheet, 2) = <<"1">>
    /\ products_sheet[2][1] = <<"0">>

IdsDistinct ==
    \A i, j \in 2..Len(products_sheet) :
        i # j => products_sheet[i][1] # products_sheet[j][1]

IsDecimalOf(text, n) ==
    /\ AllDigits(text)
    /\ DigitsValue(text) = n
    /\ (Len(text) = 1 \/ text[1] # "0")

\* C10: generate_new_product_id() returns the number of data rows as a
\* decimal string; as long as no two calls have interleaved, the ids of the
\* products added under generated ids are pairwise distinct.
C10_GeneratedIdsDistinct ==
    ~raced =>
        /\ IdsDistinct
        /\ \A p \in Procs :
              pc[p] = "append_row"
                  => IsDecimalOf(frame[p].product[1].id, Len(products_sheet) - 1)

\* C10, its case: two callers generated an id before either appended its
\* row, and two rows hold the same id.
C10_Witness ==
    /\ raced
    /\ Len(products_sheet) >= 3
    /\ ~IdsDistinct

====
